---- MODULE Spec2Model ----
(***************************************************************************)
(* Model of data/json_to_csv.py: flatten_json_to_rows (the flattener) and  *)
(* main (argument handling, reading the JSON input, writing the CSV).      *)
(*                                                                         *)
(* Python values are modelled by tagged records so that a string and a     *)
(* number never compare equal:                                             *)
(*   str  -> [t |-> "str", v |-> <<code points>>]                          *)
(*   int  -> [t |-> "num", v |-> <<n>>]                                    *)
(* A dict with optional keys is a record [has, val]: `has` is the set of   *)
(* keys present and `val` their values.  A node of the document also says  *)
(* whether it is a mapping at all (m) and what its child collection is     *)
(* (kids): absent, a list of nodes, or a scalar that cannot be iterated.   *)
(***************************************************************************)
EXTENDS Integers, Sequences, FiniteSets

VARIABLES
    argv,         \* sys.argv[1:], the positional arguments
    fs0,          \* the files before the run (never changes)
    fs,           \* the files: path -> content
    pc,           \* position of main: start, read, flatten, write, done
    input_file,   \* main's local input_file
    output_file,  \* main's local output_file
    data,         \* main's local data, the parsed document
    rows,         \* main's local rows
    opened,       \* the open() calls made so far, in order
    stdout,       \* the messages printed so far, in order
    raised,       \* the exception that ended the run, "none" if none
    exitStatus    \* the exit status of the process, -1 while it runs

vars == <<argv, fs0, fs, pc, input_file, output_file, data, rows, opened,
          stdout, raised, exitStatus>>

(***************************** bounds **************************************)
\* MaxWeight bounds the documents the flattener is applied to, MainWeight the
\* documents a whole run of main is applied to, MaxArgs the command line.
MaxWeight == 4
MainWeight == 2
MaxArgs == 3

(***************************** values **************************************)
Str(s) == [t |-> "str", v |-> s]
Num(n) == [t |-> "num", v |-> <<n>>]

EmptyStr == Str(<<>>)
Zero == Num(0)

\* A lone surrogate code point (U+D800): json.load accepts the escape
\* "\ud800", the utf-8 codec cannot encode it.
Surrogate == 55296

Encodable(v) == v.t = "num" \/ \A i \in 1..Len(v.v) : v.v[i] # Surrogate

NumericFields == <<"house", "increase", "decrease", "net", "senate">>
ScalarFields == {"code", "name", "house", "increase", "decrease", "net", "senate"}

\* dict.get(key, default)
Get(d, key, default) == IF key \in d.has THEN d.val[key] ELSE default

(************************* input documents *********************************)
AbsentKids == [k |-> "absent", items |-> <<>>]
ScalarKids == [k |-> "scalar", items |-> <<>>]
ListKids(s) == [k |-> "list", items |-> s]

NoFields == [has |-> {}, val |-> [f \in ScalarFields |-> Zero]]

NotMapping == [m |-> FALSE, key |-> <<>>, f |-> NoFields, kids |-> AbsentKids]

Variants == {"full", "bare", "odd", "sur"}

\* The name of a node is its code in lower case.
Lower(path) == [i \in 1..Len(path) |-> IF i = 1 THEN path[i] + 32 ELSE path[i]]

FieldsOf(path, variant) ==
    LET base == 100 * Len(path) + 10 * (path[Len(path)] - 48)
        full == [f \in ScalarFields |->
                   CASE f = "code" -> Str(path)
                     [] f = "name" -> Str(Lower(path))
                     [] f = "house" -> Num(base + 1)
                     [] f = "increase" -> Num(base + 2)
                     [] f = "decrease" -> Num(base + 3)
                     [] f = "net" -> Num(base + 4)
                     [] f = "senate" -> Num(base + 5)]
    IN CASE variant = "full" -> [has |-> ScalarFields, val |-> full]
         [] variant = "bare" -> NoFields
         [] variant = "odd" ->
              [has |-> {"name", "increase", "senate"},
               val |-> [full EXCEPT !["increase"] = Str(<<110, 47, 97>>),
                                    !["code"] = Zero, !["house"] = Zero,
                                    !["decrease"] = Zero, !["net"] = Zero]]
         [] variant = "sur" ->
              [has |-> {"code", "name", "house"},
               val |-> [full EXCEPT !["name"] = Str(<<Surrogate>>),
                                    !["increase"] = Zero, !["decrease"] = Zero,
                                    !["net"] = Zero, !["senate"] = Zero]]

MaxDepth == 3

\* The weight of a document bounds it: every node weighs 1, and so does every
\* irregularity (a node with fields missing, an empty or non-iterable child
\* collection, an element that is no mapping).
VariantWeight(v) == IF v = "full" THEN 0 ELSE 1

RECURSIVE ForestExact(_, _, _, _), TreeExact(_, _, _), KidsExact(_, _, _)
\* All nodes of weight exactly n rooted at `path`, at depth d.
TreeExact(d, n, path) ==
    LET mk(v, kids) == [m |-> TRUE, key |-> path, f |-> FieldsOf(path, v), kids |-> kids]
    IN  UNION {{mk(v, kids) : kids \in KidsExact(d + 1, n - 1 - VariantWeight(v), path)}
               : v \in {w \in Variants : 1 + VariantWeight(w) <= n}}
        \cup (IF n = 2 THEN {NotMapping} ELSE {})

\* All sequences of sibling nodes under `path`, the first at position pos,
\* of weight exactly n.
ForestExact(d, n, path, pos) ==
    IF n = 0 THEN {<<>>}
    ELSE UNION {
           {<<t>> \o rest : t \in TreeExact(d, k, Append(path, 48 + pos)),
                           rest \in ForestExact(d, n - k, path, pos + 1)}
           : k \in 1..n}

\* All child collections of weight exactly n at depth d.
KidsExact(d, n, path) ==
    IF d > MaxDepth THEN (IF n = 0 THEN {AbsentKids} ELSE {})
    ELSE IF n = 0 THEN {AbsentKids}
    ELSE {ListKids(s) : s \in ForestExact(d, n, path, 1)}
         \cup (IF n = 1 THEN {ListKids(<<>>), ScalarKids} ELSE {})

\* A document without the key COMMITTEE_REPORT_HBN_4058, and one whose value
\* under that key is no mapping.
RootAbsent ==
    [root |-> "absent", summary |-> AbsentKids, departments |-> AbsentKids,
     funds |-> AbsentKids]
RootScalar ==
    [root |-> "scalar", summary |-> AbsentKids, departments |-> AbsentKids,
     funds |-> AbsentKids]

\* In `summary` a "list" is the mapping's items in insertion order, each
\* item's `key` its category name.
DocsUpTo(N) ==
    {RootAbsent, RootScalar} \cup
    UNION { UNION { UNION {
        {[root |-> "map", summary |-> s, departments |-> d, funds |-> f] :
            s \in KidsExact(MaxDepth, ns, <<75>>),
            d \in KidsExact(1, nd, <<68>>),
            f \in KidsExact(1, nf, <<70>>)}
        : nf \in 0..(N - ns - nd)} : nd \in 0..(N - ns)} : ns \in 0..N}

(***************************** flattener ***********************************)
\* The outcome of a (partial) traversal: the rows appended so far and
\* whether an exception was raised.
Ok(acc) == [ok |-> TRUE, rows |-> acc]
Raised(acc) == [ok |-> FALSE, rows |-> acc]

\* Row with the Senate column read from the field 'net'.
Row_senateFromNet(level, dc, dn, ac, an, sc, sn, node) ==
    [Level |-> level,
     Department_Code |-> dc, Department_Name |-> dn,
     Agency_Code |-> ac, Agency_Name |-> an,
     Sub_Agency_Code |-> sc, Sub_Agency_Name |-> sn,
     House |-> Get(node.f, "house", Zero),
     Increase |-> Get(node.f, "increase", Zero),
     Decrease |-> Get(node.f, "decrease", Zero),
     Net |-> Get(node.f, "net", Zero),
     Senate |-> Get(node.f, "net", Zero)]

\* The five numeric columns of a row, read with .get(field, 0).
Row(level, dc, dn, ac, an, sc, sn, node) ==
    [Level |-> level,
     Department_Code |-> dc, Department_Name |-> dn,
     Agency_Code |-> ac, Agency_Name |-> an,
     Sub_Agency_Code |-> sc, Sub_Agency_Name |-> sn,
     House |-> Get(node.f, "house", Zero),
     Increase |-> Get(node.f, "increase", Zero),
     Decrease |-> Get(node.f, "decrease", Zero),
     Net |-> Get(node.f, "net", Zero),
     Senate |-> Get(node.f, "senate", Zero)]

Code(node) == Get(node.f, "code", EmptyStr)
Name(node) == Get(node.f, "name", EmptyStr)

SummaryRow(values) ==
    Row("Summary", EmptyStr, Str(values.key), EmptyStr, EmptyStr, EmptyStr, EmptyStr, values)

DepartmentRow(dept) ==
    Row("Department", Code(dept), Name(dept), EmptyStr, EmptyStr, EmptyStr, EmptyStr, dept)

\* AgencyRow with the agency's own code and name in the department columns.
AgencyRow_ownIdentity(dept, agency) ==
    Row("Agency", Code(agency), Name(agency), Code(agency), Name(agency),
        EmptyStr, EmptyStr, agency)

AgencyRow(dept, agency) ==
    Row("Agency", Code(dept), Name(dept), Code(agency), Name(agency),
        EmptyStr, EmptyStr, agency)

SubAgencyRow(dept, agency, sub_agency) ==
    Row("Sub-Agency", Code(dept), Name(dept), Code(agency), Name(agency),
        Code(sub_agency), Name(sub_agency), sub_agency)

FundRow(fund) ==
    Row("Special Purpose Fund", Code(fund), Name(fund), EmptyStr, EmptyStr,
        EmptyStr, EmptyStr, fund)

FundAgencyRow(fund, agency) ==
    Row("SPF Agency", Code(fund), Name(fund), Code(agency), Name(agency),
        EmptyStr, EmptyStr, agency)

\* for key, values in summary.items(): values.get raises on a non-mapping.
SummaryVisit(values, acc) ==
    IF ~values.m THEN Raised(acc) ELSE Ok(Append(acc, SummaryRow(values)))

RECURSIVE SummaryLoop(_, _, _)
SummaryLoop(items, i, acc) ==
    IF i > Len(items) THEN Ok(acc)
    ELSE LET r == SummaryVisit(items[i], acc)
         IN  IF r.ok THEN SummaryLoop(items, i + 1, r.rows) ELSE r

\* summary = report.get('summary', {}); .items() raises on a non-mapping.
SummaryPass(report, acc) ==
    IF report.summary.k = "scalar" THEN Raised(acc)
    ELSE SummaryLoop(report.summary.items, 1, acc)

SubAgencyVisit(dept, agency, sub_agency, acc) ==
    IF ~sub_agency.m THEN Raised(acc)
    ELSE Ok(Append(acc, SubAgencyRow(dept, agency, sub_agency)))

RECURSIVE SubAgencyLoop(_, _, _, _, _)
SubAgencyLoop(dept, agency, items, i, acc) ==
    IF i > Len(items) THEN Ok(acc)
    ELSE LET r == SubAgencyVisit(dept, agency, items[i], acc)
         IN  IF r.ok THEN SubAgencyLoop(dept, agency, items, i + 1, r.rows) ELSE r

\* AgencyVisit without the loop over sub_agencies.
AgencyVisit_noSubAgencies(dept, agency, acc) ==
    IF ~agency.m THEN Raised(acc)
    ELSE Ok(Append(acc, AgencyRow(dept, agency)))

\* The body of `for agency in agencies` of the department pass.
AgencyVisit(dept, agency, acc) ==
    IF ~agency.m THEN Raised(acc)
    ELSE LET acc1 == Append(acc, AgencyRow(dept, agency))
         IN  IF agency.kids.k = "scalar" THEN Raised(acc1)
             ELSE SubAgencyLoop(dept, agency, agency.kids.items, 1, acc1)

RECURSIVE AgencyLoop(_, _, _, _)
AgencyLoop(dept, items, i, acc) ==
    IF i > Len(items) THEN Ok(acc)
    ELSE LET r == AgencyVisit(dept, items[i], acc)
         IN  IF r.ok THEN AgencyLoop(dept, items, i + 1, r.rows) ELSE r

\* The body of `for dept in departments`.
DepartmentVisit(dept, acc) ==
    IF ~dept.m THEN Raised(acc)
    ELSE LET acc1 == Append(acc, DepartmentRow(dept))
         IN  IF dept.kids.k = "scalar" THEN Raised(acc1)
             ELSE AgencyLoop(dept, dept.kids.items, 1, acc1)

RECURSIVE DepartmentLoop(_, _, _)
DepartmentLoop(items, i, acc) ==
    IF i > Len(items) THEN Ok(acc)
    ELSE LET r == DepartmentVisit(items[i], acc)
         IN  IF r.ok THEN DepartmentLoop(items, i + 1, r.rows) ELSE r

DepartmentPass(report, acc) ==
    IF report.departments.k = "scalar" THEN Raised(acc)
    ELSE DepartmentLoop(report.departments.items, 1, acc)

\* FundAgencyVisit that goes on to the agency's sub_agencies, as the
\* department pass does.
FundAgencyVisit_descends(fund, agency, acc) ==
    IF ~agency.m THEN Raised(acc)
    ELSE LET acc1 == Append(acc, FundAgencyRow(fund, agency))
         IN  IF agency.kids.k = "scalar" THEN Raised(acc1)
             ELSE SubAgencyLoop(fund, agency, agency.kids.items, 1, acc1)

\* The body of `for agency in fund.get('agencies', [])`: sub_agencies is
\* never read.
FundAgencyVisit(fund, agency, acc) ==
    IF ~agency.m THEN Raised(acc)
    ELSE Ok(Append(acc, FundAgencyRow(fund, agency)))

RECURSIVE FundAgencyLoop(_, _, _, _)
FundAgencyLoop(fund, items, i, acc) ==
    IF i > Len(items) THEN Ok(acc)
    ELSE LET r == FundAgencyVisit(fund, items[i], acc)
         IN  IF r.ok THEN FundAgencyLoop(fund, items, i + 1, r.rows) ELSE r

\* The body of `for fund in spf`.
FundVisit(fund, acc) ==
    IF ~fund.m THEN Raised(acc)
    ELSE LET acc1 == Append(acc, FundRow(fund))
         IN  IF fund.kids.k = "scalar" THEN Raised(acc1)
             ELSE FundAgencyLoop(fund, fund.kids.items, 1, acc1)

RECURSIVE FundLoop(_, _, _)
FundLoop(items, i, acc) ==
    IF i > Len(items) THEN Ok(acc)
    ELSE LET r == FundVisit(items[i], acc)
         IN  IF r.ok THEN FundLoop(items, i + 1, r.rows) ELSE r

FundPass(report, acc) ==
    IF report.funds.k = "scalar" THEN Raised(acc)
    ELSE FundLoop(report.funds.items, 1, acc)

\* report = data.get('COMMITTEE_REPORT_HBN_4058', {})
Report(d) ==
    IF d.root # "map"
    THEN [summary |-> AbsentKids, departments |-> AbsentKids, funds |-> AbsentKids]
    ELSE [summary |-> d.summary, departments |-> d.departments, funds |-> d.funds]

\* flatten_json_to_rows with the fund pass before the department pass.
flatten_fundsFirst(d) ==
    LET report == Report(d)
        r1 == IF d.root = "scalar" THEN Raised(<<>>) ELSE SummaryPass(report, <<>>)
        r2 == IF r1.ok THEN FundPass(report, r1.rows) ELSE r1
        r3 == IF r2.ok THEN DepartmentPass(report, r2.rows) ELSE r2
    IN  r3

flatten_json_to_rows(d) ==
    LET report == Report(d)
        r1 == IF d.root = "scalar" THEN Raised(<<>>) ELSE SummaryPass(report, <<>>)
        r2 == IF r1.ok THEN DepartmentPass(report, r1.rows) ELSE r1
        r3 == IF r2.ok THEN FundPass(report, r2.rows) ELSE r2
    IN  r3

(******************************* files *************************************)
Paths == {"2026.json", "2026.csv", "in.json", "out.csv"}
JsonPaths == {"2026.json", "in.json"}
ArgPaths == {"in.json", "out.csv"}

fieldnames ==
    <<"Level", "Department_Code", "Department_Name", "Agency_Code",
      "Agency_Name", "Sub_Agency_Code", "Sub_Agency_Name", "House",
      "Increase", "Decrease", "Net", "Senate">>

Absent == [k |-> "absent", doc |-> RootAbsent, header |-> <<>>, lines |-> <<>>]
Garbage == [k |-> "garbage", doc |-> RootAbsent, header |-> <<>>, lines |-> <<>>]
JsonFile(d) == [k |-> "json", doc |-> d, header |-> <<>>, lines |-> <<>>]
CsvFile(lines) == [k |-> "csv", doc |-> RootAbsent, header |-> fieldnames, lines |-> lines]

\* str(n) for n >= 0, as code points.
RECURSIVE Digits(_)
Digits(n) == IF n < 10 THEN <<48 + n>> ELSE Append(Digits(n \div 10), 48 + (n % 10))

\* The text csv writes for a value: str(value).
Cell(v) == IF v.t = "num" THEN Digits(v.v[1]) ELSE v.v

\* The record writer.writerow writes for a row.
Line(row) ==
    [Level |-> row.Level,
     Department_Code |-> Cell(row.Department_Code),
     Department_Name |-> Cell(row.Department_Name),
     Agency_Code |-> Cell(row.Agency_Code),
     Agency_Name |-> Cell(row.Agency_Name),
     Sub_Agency_Code |-> Cell(row.Sub_Agency_Code),
     Sub_Agency_Name |-> Cell(row.Sub_Agency_Name),
     House |-> Cell(row.House),
     Increase |-> Cell(row.Increase),
     Decrease |-> Cell(row.Decrease),
     Net |-> Cell(row.Net),
     Senate |-> Cell(row.Senate)]

\* Whether the utf-8 codec of the output file can encode the row.
RowEncodable(row) ==
    /\ Encodable(row.Department_Code) /\ Encodable(row.Department_Name)
    /\ Encodable(row.Agency_Code) /\ Encodable(row.Agency_Name)
    /\ Encodable(row.Sub_Agency_Code) /\ Encodable(row.Sub_Agency_Name)
    /\ Encodable(row.House) /\ Encodable(row.Increase)
    /\ Encodable(row.Decrease) /\ Encodable(row.Net) /\ Encodable(row.Senate)

\* The number of rows writer.writerows writes before the codec raises.
RECURSIVE Written(_, _)
Written(rs, i) ==
    IF i > Len(rs) \/ ~RowEncodable(rs[i]) THEN i - 1 ELSE Written(rs, i + 1)

Lines(rs, n) == [i \in 1..n |-> Line(rs[i])]

OldCsv == CsvFile(<<Line(Row("Summary", EmptyStr, Str(<<79, 76, 68>>), EmptyStr,
                             EmptyStr, EmptyStr, EmptyStr, NotMapping))>>)

Emit(msg) == stdout' = Append(stdout, msg)
Open(path, mode) == opened' = Append(opened, [path |-> path, mode |-> mode])

(******************************** main *************************************)
Argvs == UNION {[1..n -> ArgPaths] : n \in 0..MaxArgs}

Init ==
    /\ argv \in Argvs
    /\ \E c \in {Garbage} \cup {JsonFile(d) : d \in DocsUpTo(MainWeight)},
          have \in SUBSET JsonPaths, old \in BOOLEAN :
          fs = [p \in Paths |->
                  IF p \in JsonPaths
                  THEN (IF p \in have THEN c ELSE Absent)
                  ELSE (IF old THEN OldCsv ELSE Absent)]
    /\ fs0 = fs
    /\ pc = "start"
    /\ input_file = "2026.json"
    /\ output_file = "2026.csv"
    /\ data = RootAbsent
    /\ rows = <<>>
    /\ opened = <<>>
    /\ stdout = <<>>
    /\ raised = "none"
    /\ exitStatus = -1

\* ParseArgs that takes the output path from a third argument.
ParseArgs_offByOne ==
    /\ pc = "start"
    /\ input_file' = IF Len(argv) > 0 THEN argv[1] ELSE "2026.json"
    /\ output_file' = IF Len(argv) > 2 THEN argv[3] ELSE "2026.csv"
    /\ Emit("reading")
    /\ pc' = "read"
    /\ UNCHANGED <<argv, fs0, fs, data, rows, opened, raised, exitStatus>>

\* Lines 147-156: the defaults, the positional overrides, "Reading from".
ParseArgs ==
    /\ pc = "start"
    /\ input_file' = IF Len(argv) > 0 THEN argv[1] ELSE "2026.json"
    /\ output_file' = IF Len(argv) > 1 THEN argv[2] ELSE "2026.csv"
    /\ Emit("reading")
    /\ pc' = "read"
    /\ UNCHANGED <<argv, fs0, fs, data, rows, opened, raised, exitStatus>>

\* Lines 159-161: the file exists and json.load accepts it.
ReadOk ==
    /\ pc = "read"
    /\ fs[input_file].k = "json"
    /\ Open(input_file, "r")
    /\ data' = fs[input_file].doc
    /\ pc' = "flatten"
    /\ UNCHANGED <<argv, fs0, fs, input_file, output_file, rows, stdout, raised,
                   exitStatus>>

\* Lines 162-164: FileNotFoundError.
ReadNotFound ==
    /\ pc = "read"
    /\ fs[input_file].k = "absent"
    /\ Emit("error_not_found")
    /\ raised' = "SystemExit"
    /\ exitStatus' = 1
    /\ pc' = "done"
    /\ UNCHANGED <<argv, fs0, fs, input_file, output_file, data, rows, opened>>

\* ReadInvalidJson that reports the error and goes on with an empty document.
ReadInvalidJson_goesOn ==
    /\ pc = "read"
    /\ fs[input_file].k \in {"garbage", "csv"}
    /\ Open(input_file, "r")
    /\ Emit("error_invalid_json")
    /\ data' = RootAbsent
    /\ pc' = "flatten"
    /\ UNCHANGED <<argv, fs0, fs, input_file, output_file, rows, raised, exitStatus>>

\* Lines 165-167: json.JSONDecodeError.
ReadInvalidJson ==
    /\ pc = "read"
    /\ fs[input_file].k \in {"garbage", "csv"}
    /\ Open(input_file, "r")
    /\ Emit("error_invalid_json")
    /\ raised' = "SystemExit"
    /\ exitStatus' = 1
    /\ pc' = "done"
    /\ UNCHANGED <<argv, fs0, fs, input_file, output_file, data, rows>>

\* Lines 170-172: the flattener returns the rows or raises (AttributeError,
\* TypeError), which nothing catches.
Flatten ==
    /\ pc = "flatten"
    /\ LET r == flatten_json_to_rows(data)
       IN  IF r.ok
           THEN /\ rows' = r.rows
                /\ Emit("converted")
                /\ pc' = "write"
                /\ UNCHANGED <<raised, exitStatus>>
           ELSE /\ raised' = "TraversalError"
                /\ exitStatus' = 1
                /\ pc' = "done"
                /\ UNCHANGED <<rows, stdout>>
    /\ UNCHANGED <<argv, fs0, fs, input_file, output_file, data, opened>>

\* Lines 175-197: open(output_file, 'w') truncates the file, then the header
\* and the rows are written in order; a row the codec cannot encode raises
\* UnicodeEncodeError and the file is closed with what was written.
WriteCsv ==
    /\ pc = "write"
    /\ rows # <<>>
    /\ Open(output_file, "w")
    /\ LET n == Written(rows, 1)
       IN  /\ fs' = [fs EXCEPT ![output_file] = CsvFile(Lines(rows, n))]
           /\ IF n = Len(rows)
              THEN /\ stdout' = stdout \o <<"success", "note">>
                   /\ exitStatus' = 0
                   /\ UNCHANGED raised
              ELSE /\ raised' = "UnicodeEncodeError"
                   /\ exitStatus' = 1
                   /\ UNCHANGED stdout
    /\ pc' = "done"
    /\ UNCHANGED <<argv, fs0, input_file, output_file, data, rows>>

\* WarnNoData that also writes a header-only file.
WarnNoData_writesHeader ==
    /\ pc = "write"
    /\ rows = <<>>
    /\ Open(output_file, "w")
    /\ fs' = [fs EXCEPT ![output_file] = CsvFile(<<>>)]
    /\ Emit("warning")
    /\ exitStatus' = 0
    /\ pc' = "done"
    /\ UNCHANGED <<argv, fs0, input_file, output_file, data, rows, raised>>

\* Lines 198-199: no rows, nothing is written.
WarnNoData ==
    /\ pc = "write"
    /\ rows = <<>>
    /\ Emit("warning")
    /\ exitStatus' = 0
    /\ pc' = "done"
    /\ UNCHANGED <<argv, fs0, fs, input_file, output_file, data, rows, opened, raised>>

Next ==
    \/ ParseArgs
    \/ ReadOk
    \/ ReadNotFound
    \/ ReadInvalidJson
    \/ Flatten
    \/ WriteCsv
    \/ WarnNoData

Spec == Init /\ [][Next]_vars

(***************** the flattener applied to larger documents ***************)
\* main after it has read the default input file, for every document of
\* weight up to MaxWeight.
FlattenInit ==
    /\ argv = <<>>
    /\ data \in DocsUpTo(MaxWeight)
    /\ fs = [p \in Paths |-> IF p = "2026.json" THEN JsonFile(data) ELSE Absent]
    /\ fs0 = fs
    /\ pc = "flatten"
    /\ input_file = "2026.json"
    /\ output_file = "2026.csv"
    /\ rows = <<>>
    /\ opened = <<[path |-> "2026.json", mode |-> "r"]>>
    /\ stdout = <<"reading">>
    /\ raised = "none"
    /\ exitStatus = -1

FlattenNext == Flatten

FlattenSpec == FlattenInit /\ [][FlattenNext]_vars

(************************ reading a document *******************************)
\* What the claims say about a document, read off the document itself.
Printed(msg) == \E i \in 1..Len(stdout) : stdout[i] = msg
OpenedFor(mode) == {opened[i].path : i \in {j \in 1..Len(opened) : opened[j].mode = mode}}

KidsAreMappings(kids) ==
    /\ kids.k # "scalar"
    /\ \A i \in 1..Len(kids.items) : kids.items[i].m

\* Every node is a mapping and every present child collection is a sequence
\* of mappings, down to the sub-agencies of departments and of funds.
TopWellFormed(kids) ==
    /\ KidsAreMappings(kids)
    /\ \A i \in 1..Len(kids.items) :
          /\ KidsAreMappings(kids.items[i].kids)
          /\ \A j \in 1..Len(kids.items[i].kids.items) :
                KidsAreMappings(kids.items[i].kids.items[j].kids)

WellFormed(d) ==
    /\ d.root # "scalar"
    /\ KidsAreMappings(d.summary)
    /\ TopWellFormed(d.departments)
    /\ TopWellFormed(d.funds)

RECURSIVE SumSeq(_)
SumSeq(s) == IF s = <<>> THEN 0 ELSE s[1] + SumSeq(Tail(s))

RECURSIVE Concat(_)
Concat(ss) == IF ss = <<>> THEN <<>> ELSE ss[1] \o Concat(Tail(ss))

Children(node) == node.kids.items

AgenciesOf(top) == SumSeq([i \in 1..Len(top) |-> Len(Children(top[i]))])
SubAgenciesOf(top) ==
    SumSeq([i \in 1..Len(top) |-> AgenciesOf(Children(top[i]))])

NodeCount(d) ==
    Len(d.summary.items)
    + Len(d.departments.items) + AgenciesOf(d.departments.items)
    + SubAgenciesOf(d.departments.items)
    + Len(d.funds.items) + AgenciesOf(d.funds.items)

\* The nodes the claims speak of, in depth-first pre-order, each with its
\* level and its ancestors (NotMapping where it has none).
Visit(level, self, parent, grand) ==
    [level |-> level, self |-> self, parent |-> parent, grand |-> grand]

AgencyNodes(dept, agency) ==
    <<Visit("Agency", agency, dept, NotMapping)>>
    \o [k \in 1..Len(Children(agency)) |->
          Visit("Sub-Agency", Children(agency)[k], agency, dept)]

DepartmentNodes(dept) ==
    <<Visit("Department", dept, NotMapping, NotMapping)>>
    \o Concat([j \in 1..Len(Children(dept)) |-> AgencyNodes(dept, Children(dept)[j])])

FundNodes(fund) ==
    <<Visit("Special Purpose Fund", fund, NotMapping, NotMapping)>>
    \o [j \in 1..Len(Children(fund)) |->
          Visit("SPF Agency", Children(fund)[j], fund, NotMapping)]

PreOrder(d) ==
    [i \in 1..Len(d.summary.items) |->
        Visit("Summary", d.summary.items[i], NotMapping, NotMapping)]
    \o Concat([i \in 1..Len(d.departments.items) |-> DepartmentNodes(d.departments.items[i])])
    \o Concat([i \in 1..Len(d.funds.items) |-> FundNodes(d.funds.items[i])])

RowOf(n) ==
    CASE n.level = "Summary" -> SummaryRow(n.self)
      [] n.level = "Department" -> DepartmentRow(n.self)
      [] n.level = "Agency" -> AgencyRow(n.parent, n.self)
      [] n.level = "Sub-Agency" -> SubAgencyRow(n.grand, n.parent, n.self)
      [] n.level = "Special Purpose Fund" -> FundRow(n.self)
      [] n.level = "SPF Agency" -> FundAgencyRow(n.parent, n.self)

\* The pass a level belongs to: 1 summary, 2 departments, 3 funds.
PassOf(level) ==
    CASE level = "Summary" -> 1
      [] level \in {"Department", "Agency", "Sub-Agency"} -> 2
      [] level \in {"Special Purpose Fund", "SPF Agency"} -> 3

\* The code and the name a node carries, the empty string when it has none.
IdCode(n) == IF "code" \in n.f.has THEN n.f.val["code"] ELSE EmptyStr
IdName(n) == IF "name" \in n.f.has THEN n.f.val["name"] ELSE EmptyStr

Identity(row) ==
    <<row.Department_Code, row.Department_Name, row.Agency_Code,
      row.Agency_Name, row.Sub_Agency_Code, row.Sub_Agency_Name>>

Column(field) ==
    CASE field = "house" -> "House"
      [] field = "increase" -> "Increase"
      [] field = "decrease" -> "Decrease"
      [] field = "net" -> "Net"
      [] field = "senate" -> "Senate"

RowsWithLevel(level) == {i \in 1..Len(rows) : rows[i].Level = level}

Returned == pc \in {"write", "done"} /\ Printed("converted")

(****************************** claims *************************************)
\* C1: for a well-formed document the flattener returns exactly one row per
\* summary entry, department, agency, sub-agency, fund and fund agency.
C1_RowCount ==
    (Returned /\ WellFormed(data)) => Len(rows) = NodeCount(data)

\* A department without agencies next to a department with one agency.
C1_Witness ==
    /\ Returned /\ WellFormed(data)
    /\ Len(data.departments.items) = 2
    /\ data.departments.items[1].kids = ListKids(<<>>)
    /\ Len(Children(data.departments.items[2])) = 1
    /\ Len(rows) = 3

\* C2: the rows are the depth-first pre-order of the document, the summary
\* pass before the department pass before the fund pass, each parent right
\* before its own children, siblings in document order.
C2_PreOrder ==
    Returned =>
        /\ rows = [i \in 1..Len(PreOrder(data)) |-> RowOf(PreOrder(data)[i])]
        /\ \A i, j \in 1..Len(rows) :
              i < j => PassOf(rows[i].Level) <= PassOf(rows[j].Level)

\* A department whose first agency has a sub-agency and is followed by a
\* second agency.
C2_Witness ==
    /\ Returned
    /\ Len(rows) = 4
    /\ rows[1].Level = "Department" /\ rows[2].Level = "Agency"
    /\ rows[3].Level = "Sub-Agency" /\ rows[4].Level = "Agency"
    /\ rows[2] # rows[4]

\* C3: every row carries the code and name of its node and of its ancestors
\* in the columns of their levels, and the empty string in every other
\* identity column.
C3_Identity ==
    Returned =>
        /\ Len(rows) = Len(PreOrder(data))
        /\ \A i \in 1..Len(rows) :
              LET n == PreOrder(data)[i]
                  e == EmptyStr
              IN  /\ rows[i].Level = n.level
                  /\ Identity(rows[i]) =
                       CASE n.level = "Summary" ->
                              <<e, Str(n.self.key), e, e, e, e>>
                         [] n.level \in {"Department", "Special Purpose Fund"} ->
                              <<IdCode(n.self), IdName(n.self), e, e, e, e>>
                         [] n.level \in {"Agency", "SPF Agency"} ->
                              <<IdCode(n.parent), IdName(n.parent),
                                IdCode(n.self), IdName(n.self), e, e>>
                         [] n.level = "Sub-Agency" ->
                              <<IdCode(n.grand), IdName(n.grand),
                                IdCode(n.parent), IdName(n.parent),
                                IdCode(n.self), IdName(n.self)>>

\* A sub-agency row with the three levels' codes, all different.
C3_Witness ==
    /\ Returned
    /\ \E i \in 1..Len(rows) :
          /\ rows[i].Level = "Sub-Agency"
          /\ rows[i].Department_Code # EmptyStr
          /\ rows[i].Agency_Code # EmptyStr
          /\ rows[i].Sub_Agency_Code # EmptyStr
          /\ rows[i].Department_Code # rows[i].Agency_Code
          /\ rows[i].Agency_Code # rows[i].Sub_Agency_Code

\* C4: each numeric column of a row is 0 when the node lacks the field and
\* the node's value as found, number or not, when it has it.
C4_Numeric ==
    Returned =>
        /\ Len(rows) = Len(PreOrder(data))
        /\ \A i \in 1..Len(rows) : \A k \in 1..Len(NumericFields) :
              LET n == PreOrder(data)[i].self
                  field == NumericFields[k]
              IN  rows[i][Column(field)] =
                     IF field \in n.f.has THEN n.f.val[field] ELSE Zero

\* A node with a non-numeric increase and no house field.
C4_Witness ==
    /\ Returned
    /\ \E i \in 1..Len(rows) :
          /\ "house" \notin PreOrder(data)[i].self.f.has
          /\ rows[i].House = Zero
          /\ rows[i].Increase.t = "str"
          /\ rows[i].Senate.t = "num" /\ rows[i].Senate # Zero

\* C9: the fund pass emits one row per fund and one "SPF Agency" row per
\* fund agency, with empty sub-agency columns, and nothing for a fund
\* agency's sub-agencies: the "Sub-Agency" rows are those of departments
\* and none follows a fund row.
C9_NoFundSubAgencies ==
    Returned =>
        /\ \A i \in RowsWithLevel("SPF Agency") :
              rows[i].Sub_Agency_Code = EmptyStr /\ rows[i].Sub_Agency_Name = EmptyStr
        /\ Cardinality(RowsWithLevel("Special Purpose Fund")) = Len(data.funds.items)
        /\ Cardinality(RowsWithLevel("SPF Agency")) = AgenciesOf(data.funds.items)
        /\ Cardinality(RowsWithLevel("Sub-Agency")) = SubAgenciesOf(data.departments.items)
        /\ \A i, j \in 1..Len(rows) :
              (i < j /\ PassOf(rows[i].Level) = 3) => PassOf(rows[j].Level) = 3

\* A fund agency that has a sub-agency.
C9_Witness ==
    /\ Returned
    /\ \E i \in 1..Len(data.funds.items) :
          \E j \in 1..Len(Children(data.funds.items[i])) :
             /\ Children(Children(data.funds.items[i])[j]) # <<>>
             /\ Children(Children(data.funds.items[i])[j])[1].m
    /\ RowsWithLevel("SPF Agency") # {}

\* The paths main is to use for a command line.
ExpectedInput == IF Len(argv) = 0 THEN "2026.json" ELSE argv[1]
ExpectedOutput == IF Len(argv) <= 1 THEN "2026.csv" ELSE argv[2]

WriteOpened == OpenedFor("w") # {}

\* C5 as stated: an input that flattens to zero rows yields a header-only
\* output file, a warning and exit status 0.
C5_HeaderOnlyFile ==
    (pc = "done" /\ Returned /\ rows = <<>>) =>
        /\ fs[output_file] = CsvFile(<<>>)
        /\ Printed("warning")
        /\ exitStatus = 0

\* C5, amended: an input that flattens to zero rows yields no output file
\* (the output path is neither opened, created nor modified), a warning and
\* exit status 0.
C5_NoRowsNoFile ==
    (pc = "done" /\ Returned /\ rows = <<>>) =>
        /\ fs = fs0
        /\ ~WriteOpened
        /\ Printed("warning")
        /\ raised = "none"
        /\ exitStatus = 0

\* A run over a document with the root key and empty sub-trees, with no
\* output file before or after.
C5_Witness ==
    /\ pc = "done" /\ Returned /\ rows = <<>>
    /\ data.root = "map"
    /\ Printed("warning")
    /\ fs[output_file] = Absent

C8_NeverFails ==
    (pc = "done" /\ fs0[ExpectedInput].k = "json" /\ WellFormed(fs0[ExpectedInput].doc)) =>
        /\ raised = "none"
        /\ exitStatus = 0

\* C10 as stated: the output file is opened only after the flattener has
\* returned; a traversal that fails leaves the output file untouched, and
\* an output file that is written holds the header and all the rows.
C10_AllOrNothing ==
    /\ raised = "TraversalError" => (fs = fs0 /\ ~WriteOpened)
    /\ WriteOpened =>
          /\ Returned
          /\ flatten_json_to_rows(data) = Ok(rows)
          /\ fs[output_file] = CsvFile(Lines(rows, Len(rows)))
====
